---------------------------- MODULE Spec2Model ----------------------------
(***************************************************************************)
(* A model of http_lib's streamed message framer                           *)
(* (http_lib/structures/message.py: message_body_from_reader and           *)
(* message_parts_from_reader, StartLine and StatusLine), of the Forwarded   *)
(* header decoder (http_lib/parse/header/forwarded.py:                     *)
(* parse_forwarded_header_value) and of URI decomposition                  *)
(* (http_lib/parse/uri.py: parse_uri).                                     *)
(*                                                                         *)
(* Bytes are one-character tokens; CR and LF stand for b'\r' and b'\n'.    *)
(* The asyncio StreamReader is the environment: `stream` holds the bytes   *)
(* the peer delivers, `pos` counts the bytes the reader has consumed.      *)
(***************************************************************************)
EXTENDS Naturals, Integers, Sequences, FiniteSets, TLC

VARIABLES
    headers,            \* the `headers` argument: Some(list of <<name, value>>), or Nothing
    timeout,            \* the `timeout` argument: Nothing or Some(seconds)
    stream,             \* every byte the peer delivers on the StreamReader
    pos,                \* number of bytes of `stream` consumed so far
    pc,                 \* where message_body_from_reader is suspended
    ppc,                \* where message_parts_from_reader is suspended
    content_length,     \* local of message_body_from_reader (Nothing or Some(int))
    transfer_encoding,  \* local of message_body_from_reader (never assigned)
    chunked,            \* local of message_body_from_reader
    includes_trailers,  \* local of message_body_from_reader (Nothing or Some(TRUE))
    chunk_size_bytes,   \* local: the last chunk-size line read
    num_content_bytes,  \* local: the decoded size of that line
    header_bytearray,   \* local of message_parts_from_reader
    out,                \* the units message_body_from_reader has yielded
    parts,              \* the values message_parts_from_reader has yielded
    reads,              \* the reads issued on the StreamReader, in order
    err,                \* the exception that ended the generator, or NoError
    fwd_value,          \* parse_forwarded_header_value: the header value (token structure)
    use_node,           \* parse_forwarded_header_value: the use_node argument
    fwd_pc,             \* "call" before the call, "returned" or "raised" after it
    fwd_result,         \* the list of records returned, or the exception raised
    uri_string,         \* parse_uri: the uri_string argument (token structure)
    uri_pc,             \* "call" before the call, "returned" or "raised" after it
    uri_result,         \* the ParsedURI returned, or the exception raised
    sl_data,            \* StartLine.from_bytes: the data argument (list of tokens)
    sl_pc,              \* how far parse, bytes() and parse again have come
    sl_value,           \* the start line StartLine.from_bytes(data) returned
    sl_rendered,        \* what bytes(start_line) returned or raised
    sl_reparsed         \* what StartLine.from_bytes of the rendering returned or raised

frameVars == <<headers, timeout, stream, pos, pc, ppc, content_length,
               transfer_encoding, chunked, includes_trailers, chunk_size_bytes,
               num_content_bytes, header_bytearray, out, parts, reads, err>>
fwdVars == <<fwd_value, use_node, fwd_pc, fwd_result>>
uriVars == <<uri_string, uri_pc, uri_result>>
slVars == <<sl_data, sl_pc, sl_value, sl_rendered, sl_reparsed>>
pureVars == <<fwdVars, uriVars, slVars>>
vars == <<frameVars, pureVars>>

---------------------------------------------------------------------------
(* Bounds of the model.                                                    *)

MaxHeaders == 3
MaxChunks == 2
MaxFieldLines == 2
MaxPairs == 3
MaxPortDigits == 5

---------------------------------------------------------------------------
(* Bytes and byte strings.                                                 *)

CR == "CR"
LF == "LF"
CRLF == <<CR, LF>>
NoError == "none"

\* Python's None and a present value, for the arguments and locals that may
\* be None: Nothing is None, Some(x) is x.
Nothing == <<>>
Some(x) == <<x>>
ValueOf(o) == o[1]

RECURSIVE Flatten(_)
Flatten(ss) == IF ss = <<>> THEN <<>> ELSE Head(ss) \o Flatten(Tail(ss))

---------------------------------------------------------------------------
(* asyncio.StreamReader, as message.py uses it.                            *)

\* Indices i > p at which the separator b'\r\n' ends in s.
SeparatorEnds(s, p) ==
    {i \in (p + 2)..Len(s) : s[i - 1] = CR /\ s[i] = LF}

\* reader.readuntil(separator=b'\r\n') can complete: the separator is in the data.
CanReadUntil(s, p) == SeparatorEnds(s, p) # {}

\* What reader.readuntil(separator=b'\r\n') returns: the bytes through the
\* first separator, inclusive.
ReadUntil(s, p) ==
    LET e == CHOOSE i \in SeparatorEnds(s, p) :
                 \A j \in SeparatorEnds(s, p) : i <= j
    IN SubSeq(s, p + 1, e)

\* reader.readexactly(n) can complete: n more bytes are delivered.
CanReadExactly(s, p, n) == p + n <= Len(s)

\* What reader.readexactly(n) returns.
ReadExactly(s, p, n) == SubSeq(s, p + 1, p + n)


---------------------------------------------------------------------------
(* Header names and values: str.lower() and int() on the strings used.     *)

\* str.lower() on the header names and values of the model.
Lower(s) ==
    CASE s = "Content-Length" -> "content-length"
      [] s = "CONTENT-LENGTH" -> "content-length"
      [] s = "Transfer-Encoding" -> "transfer-encoding"
      [] s = "Trailers" -> "trailers"
      [] s = "Chunked" -> "chunked"
      [] s = "CHUNKED" -> "chunked"
      [] s = "Host" -> "host"
      [] OTHER -> s

\* int(value) of a header value: the decimal strings of the model; any other
\* string makes int() raise ValueError.
DecimalStrings == {"0", "2"}
IntOfDecimal(v) == CASE v = "0" -> 0 [] v = "2" -> 2

\* The header fields the caller may pass.
HeaderFields ==
    { <<"Content-Length", "2">>, <<"content-length", "0">>,
      <<"CONTENT-LENGTH", "x">>,
      <<"Transfer-Encoding", "Chunked">>, <<"transfer-encoding", "gzip">>,
      <<"Trailers", "t">> }

RECURSIVE SeqsUpTo(_, _)
SeqsUpTo(S, n) ==
    IF n = 0 THEN {<<>>}
    ELSE LET shorter == SeqsUpTo(S, n - 1)
         IN shorter \cup {Append(q, x) : q \in shorter, x \in S}

HeaderLists == SeqsUpTo(HeaderFields, MaxHeaders)

---------------------------------------------------------------------------
(* message_body_from_reader, lines 140-161: the scan of the headers.       *)

\* The locals before the loop (lines 140-143).
ScanInit ==
    [content_length |-> Nothing, transfer_encoding |-> Nothing, chunked |-> FALSE,
     includes_trailers |-> Nothing, err |-> NoError]

\* ScanContentLength without the test of line 150: a later Content-Length
\* replaces an earlier one.
ScanContentLengthLastWins(st, value) ==
    IF value \notin DecimalStrings THEN [st EXCEPT !.err = "ValueError"]
    ELSE [st EXCEPT !.content_length = Some(IntOfDecimal(value))]

\* case 'content-length' (lines 149-152).
ScanContentLength(st, value) ==
    IF st.content_length # Nothing THEN [st EXCEPT !.err = "ValueError"]
    ELSE IF value \notin DecimalStrings THEN [st EXCEPT !.err = "ValueError"]
    ELSE [st EXCEPT !.content_length = Some(IntOfDecimal(value))]

\* case 'transfer-encoding' (lines 153-157): transfer_encoding is tested and
\* never assigned.
ScanTransferEncoding(st, value) ==
    IF st.transfer_encoding # Nothing THEN [st EXCEPT !.err = "ValueError"]
    ELSE IF Lower(value) = "chunked" THEN [st EXCEPT !.chunked = TRUE]
    ELSE st

\* case 'trailers' (lines 158-161).
ScanTrailers(st, value) ==
    IF st.includes_trailers # Nothing THEN [st EXCEPT !.err = "ValueError"]
    ELSE [st EXCEPT !.includes_trailers = Some(TRUE)]

\* One iteration of the loop of line 147.
ScanStep(st, h) ==
    CASE Lower(h[1]) = "content-length" -> ScanContentLength(st, h[2])
      [] Lower(h[1]) = "transfer-encoding" -> ScanTransferEncoding(st, h[2])
      [] Lower(h[1]) = "trailers" -> ScanTrailers(st, h[2])
      [] OTHER -> st

\* The loop of lines 147-161: it stops at the first raise.
RECURSIVE ScanFrom(_, _)
ScanFrom(st, hs) ==
    IF hs = <<>> \/ st.err # NoError THEN st
    ELSE ScanFrom(ScanStep(st, Head(hs)), Tail(hs))

ScanHeaders(hs) == ScanFrom(ScanInit, hs)

\* Strategy with the branches of lines 163 and 191 in the other order.
StrategyLengthFirst(st) ==
    IF st.content_length # Nothing THEN "fixed"
    ELSE IF st.chunked THEN "chunk_size"
    ELSE "done"

\* The branch taken at lines 163 and 191.
Strategy(st) ==
    IF st.chunked THEN "chunk_size"
    ELSE IF st.content_length # Nothing THEN "fixed"
    ELSE "done"

---------------------------------------------------------------------------
(* int(chunk_size_bytes.decode()[:-2], base=16), line 166.                 *)

HexDigits ==
    [c \in {"0", "1", "2", "3", "4", "5", "6", "7", "8", "9"} |->
        CASE c = "0" -> 0 [] c = "1" -> 1 [] c = "2" -> 2 [] c = "3" -> 3
          [] c = "4" -> 4 [] c = "5" -> 5 [] c = "6" -> 6 [] c = "7" -> 7
          [] c = "8" -> 8 [] c = "9" -> 9]

Whitespace == {CR, LF}

\* int() strips surrounding whitespace, CR and LF included.
RECURSIVE StripLeft(_)
StripLeft(s) ==
    IF s # <<>> /\ Head(s) \in Whitespace THEN StripLeft(Tail(s)) ELSE s

RECURSIVE StripRight(_)
StripRight(s) ==
    IF s # <<>> /\ s[Len(s)] \in Whitespace
    THEN StripRight(SubSeq(s, 1, Len(s) - 1)) ELSE s

RECURSIVE HexValue(_, _)
HexValue(s, acc) ==
    IF s = <<>> THEN acc ELSE HexValue(Tail(s), 16 * acc + HexDigits[Head(s)])

\* The decoded chunk size of a chunk-size line, or -1 where int() raises
\* ValueError.
ChunkSizeOf(line) ==
    LET digits == StripRight(StripLeft(SubSeq(line, 1, Len(line) - 2)))
    IN IF digits = <<>> \/ \E i \in 1..Len(digits) : digits[i] \notin DOMAIN HexDigits
       THEN -1
       ELSE HexValue(digits, 0)


---------------------------------------------------------------------------
(* The streams the peer may deliver.                                       *)

W == "W"

\* The payloads of the nonzero chunks: one byte, and two bytes that are
\* themselves a CRLF.
ChunkPayloads == { <<W>>, CRLF }

SizeDigit(n) == CASE n = 1 -> "1" [] n = 2 -> "2"

\* A nonzero chunk on the wire: chunk-size line, chunk data, CRLF.
ChunkSizeLine(payload) == <<SizeDigit(Len(payload))>> \o CRLF
WireChunk(payload) == ChunkSizeLine(payload) \o payload \o CRLF

RECURSIVE WireChunks(_)
WireChunks(ps) ==
    IF ps = <<>> THEN <<>> ELSE WireChunk(Head(ps)) \o WireChunks(Tail(ps))

ZeroChunkLine == <<"0">> \o CRLF
TrailerLine == <<W>> \o CRLF

ChunkLists == SeqsUpTo(ChunkPayloads, MaxChunks)

\* What follows the nonzero chunks: a proper end, a trailer section, a
\* trailer section that never ends, a zero-size chunk with nothing after
\* it, nothing at all, and a line that is no chunk size.
Endings ==
    { ZeroChunkLine \o CRLF,
      ZeroChunkLine \o TrailerLine \o CRLF,
      ZeroChunkLine \o TrailerLine,
      ZeroChunkLine,
      <<>>,
      TrailerLine }

\* Bytes of a following message: none, one byte, a whole line.
Tails == { <<>>, <<W>>, <<W>> \o CRLF }

Streams ==
    { WireChunks(ps) \o e \o t : ps \in ChunkLists, e \in Endings, t \in Tails }

Timeouts == { Nothing, Some(1) }

---------------------------------------------------------------------------
(* The reads of message.py: each is wait_for(reader.read...(), timeout).   *)

BodyReadPcs == {"chunk_size", "chunk_data", "trailer", "final_crlf", "fixed"}
PartsReadPcs == {"start_line", "field_line"}

\* Where the running generator is suspended in a read, if it is.
AtRead == IF ppc \in PartsReadPcs THEN ppc ELSE pc
InRead == AtRead \in BodyReadPcs \cup PartsReadPcs

\* readexactly(n=num_content_bytes + 2), line 173.
ChunkReadSize(n) == n + 2

\* FixedReadSize reading one byte too many.
FixedReadSizePlusOne(cl) == cl + 1

\* readexactly(n=content_length), line 192.
FixedReadSize(cl) == cl

\* The read awaited at each suspension point (lines 165, 172, 180, 186, 192,
\* 210, 217).
ReadAt(at) ==
    CASE at = "chunk_data" ->
            [op |-> "readexactly", n |-> ChunkReadSize(num_content_bytes)]
      [] at = "fixed" ->
            [op |-> "readexactly", n |-> FixedReadSize(ValueOf(content_length))]
      [] OTHER -> [op |-> "readuntil", n |-> 0]

CanComplete(r) ==
    IF r.op = "readuntil" THEN CanReadUntil(stream, pos)
    ELSE CanReadExactly(stream, pos, r.n)

ReadResult(r) ==
    IF r.op = "readuntil" THEN ReadUntil(stream, pos)
    ELSE ReadExactly(stream, pos, r.n)

\* An entry of `reads`: the read, how it ended, and the bytes it returned.
Logged(r, how) ==
    [op |-> r.op, n |-> r.n, result |-> how,
     data |-> IF how = "ok" THEN ReadResult(r) ELSE <<>>]

\* A completed read consumes what it returns.
Consume(r) ==
    /\ pos' = pos + Len(ReadResult(r))
    /\ reads' = Append(reads, Logged(r, "ok"))

\* PosAfterTimeout for a cancelled read that keeps a byte it had taken.
PosAfterTimeoutPartial(p) == p + 1

\* The stream position after wait_for cancels a read at its deadline:
\* readuntil and readexactly take bytes out of the buffer only when they
\* return, so a cancelled read leaves the position where it was.
PosAfterTimeout(p) == p

\* message_body_from_reader yields `unit`; under message_parts_from_reader
\* line 229 yields it again.
Emit(unit) ==
    /\ out' = Append(out, unit)
    /\ parts' = IF ppc = "body" THEN Append(parts, Some(unit)) ELSE parts

NoEmit == UNCHANGED <<out, parts>>


---------------------------------------------------------------------------
(* message_body_from_reader (message.py lines 126-192).                    *)

bodyLocals == <<content_length, transfer_encoding, chunked, includes_trailers>>
chunkLocals == <<chunk_size_bytes, num_content_bytes>>
callArgs == <<headers, timeout, stream>>

\* message_parts_from_reader ends when the body generator it iterates (line
\* 228) ends or raises; a direct call has no such caller.
PartsAfter(newpc) ==
    IF ppc = "direct" THEN "direct"
    ELSE IF newpc \in {"done", "failed"} THEN newpc
    ELSE ppc

\* Lines 140-163 and 191: scan the headers and pick the branch.  Iterating
\* headers that are None raises TypeError.
BodyScan ==
    /\ pc = "scan"
    /\ IF headers = Nothing
       THEN /\ pc' = "failed"
            /\ err' = "TypeError"
            /\ UNCHANGED bodyLocals
       ELSE LET st == ScanHeaders(ValueOf(headers))
            IN /\ content_length' = st.content_length
               /\ transfer_encoding' = st.transfer_encoding
               /\ chunked' = st.chunked
               /\ includes_trailers' = st.includes_trailers
               /\ err' = st.err
               /\ pc' = IF st.err # NoError THEN "failed" ELSE Strategy(st)
    /\ ppc' = PartsAfter(pc')
    /\ UNCHANGED <<callArgs, pos, chunkLocals, header_bytearray, out, parts,
                   reads, pureVars>>

\* ChunkUnit without the chunk-size line.
ChunkUnitDataOnly(size_line, chunk) == chunk

\* The unit of line 177.
ChunkUnit(size_line, chunk) == size_line \o chunk

\* The unit of line 190.
LastUnit(size_line, crlf) == size_line \o crlf

\* AfterZeroChunk going back for a further chunk-size line.
AfterZeroChunkReadsOn(trailers) == "chunk_size"

\* Where line 179 goes after the zero-size chunk.
AfterZeroChunk(trailers) == IF trailers # Nothing THEN "trailer" ELSE "final_crlf"

\* Lines 165-169: read a chunk-size line and decode it.
ReadChunkSize ==
    /\ pc = "chunk_size"
    /\ CanComplete(ReadAt(pc))
    /\ LET line == ReadResult(ReadAt(pc))
           size == ChunkSizeOf(line)
       IN /\ Consume(ReadAt(pc))
          /\ chunk_size_bytes' = line
          /\ IF size < 0
             THEN /\ pc' = "failed"
                  /\ err' = "ValueError"
                  /\ UNCHANGED num_content_bytes
             ELSE /\ num_content_bytes' = size
                  /\ pc' = IF size = 0 THEN AfterZeroChunk(includes_trailers)
                           ELSE "chunk_data"
                  /\ UNCHANGED err
    /\ NoEmit
    /\ ppc' = PartsAfter(pc')
    /\ UNCHANGED <<callArgs, bodyLocals, header_bytearray, pureVars>>

\* Lines 172-177: read the chunk with its CRLF and yield it after its size line.
ReadChunk ==
    /\ pc = "chunk_data"
    /\ CanComplete(ReadAt(pc))
    /\ Consume(ReadAt(pc))
    /\ Emit(ChunkUnit(chunk_size_bytes, ReadResult(ReadAt(pc))))
    /\ pc' = "chunk_size"
    /\ ppc' = PartsAfter(pc')
    /\ UNCHANGED <<callArgs, bodyLocals, chunkLocals, header_bytearray,
                   err, pureVars>>

\* Lines 180-184: read a trailer line, yield it, stop after a bare CRLF.
ReadTrailer ==
    /\ pc = "trailer"
    /\ CanComplete(ReadAt(pc))
    /\ Consume(ReadAt(pc))
    /\ Emit(ReadResult(ReadAt(pc)))
    /\ pc' = IF ReadResult(ReadAt(pc)) = CRLF THEN "done" ELSE "trailer"
    /\ ppc' = PartsAfter(pc')
    /\ UNCHANGED <<callArgs, bodyLocals, chunkLocals, header_bytearray,
                   err, pureVars>>

\* Lines 186-190: read the final CRLF, check it, yield it after the
\* zero-size chunk line.
ReadFinalCRLF ==
    /\ pc = "final_crlf"
    /\ CanComplete(ReadAt(pc))
    /\ Consume(ReadAt(pc))
    /\ IF Len(ReadResult(ReadAt(pc))) # 2
       THEN /\ pc' = "failed"
            /\ err' = "ValueError"
            /\ NoEmit
       ELSE /\ pc' = "done"
            /\ Emit(LastUnit(chunk_size_bytes, ReadResult(ReadAt(pc))))
            /\ UNCHANGED err
    /\ ppc' = PartsAfter(pc')
    /\ UNCHANGED <<callArgs, bodyLocals, chunkLocals, header_bytearray,
                   pureVars>>

\* Line 192: read content_length bytes and yield them.
ReadFixed ==
    /\ pc = "fixed"
    /\ CanComplete(ReadAt(pc))
    /\ Consume(ReadAt(pc))
    /\ Emit(ReadResult(ReadAt(pc)))
    /\ pc' = "done"
    /\ ppc' = PartsAfter(pc')
    /\ UNCHANGED <<callArgs, bodyLocals, chunkLocals, header_bytearray,
                   err, pureVars>>

\* The awaited read raises: the generator suspended in it ends, and the
\* exception of the body generator ends message_parts_from_reader with it.
ReadRaises ==
    IF ppc \in PartsReadPcs
    THEN ppc' = "failed" /\ UNCHANGED pc
    ELSE pc' = "failed" /\ ppc' = PartsAfter("failed")

\* wait_for(..., timeout=timeout) raises TimeoutError: the read in flight is
\* cancelled and the generator ends.  With timeout=None no deadline runs.
ReadTimesOut ==
    /\ InRead
    /\ timeout # Nothing
    /\ reads' = Append(reads, Logged(ReadAt(AtRead), "timeout"))
    /\ pos' = PosAfterTimeout(pos)
    /\ err' = "TimeoutError"
    /\ ReadRaises
    /\ NoEmit
    /\ UNCHANGED <<callArgs, bodyLocals, chunkLocals, header_bytearray,
                   pureVars>>

\* The peer closes before the read can complete: readuntil and readexactly
\* raise IncompleteReadError and leave the buffer empty.
ReadHitsEOF ==
    /\ InRead
    /\ ~CanComplete(ReadAt(AtRead))
    /\ reads' = Append(reads, Logged(ReadAt(AtRead), "eof"))
    /\ pos' = Len(stream)
    /\ err' = "IncompleteReadError"
    /\ ReadRaises
    /\ NoEmit
    /\ UNCHANGED <<callArgs, bodyLocals, chunkLocals, header_bytearray,
                   pureVars>>

\* parse_forwarded_header_value before it is called.
FwdIdle ==
    /\ fwd_value = <<>>
    /\ use_node = FALSE
    /\ fwd_pc = "idle"
    /\ fwd_result = <<>>

\* parse_uri before it is called.
UriIdle ==
    /\ uri_string = <<>>
    /\ uri_pc = "idle"
    /\ uri_result = <<>>

\* StartLine.from_bytes before it is called.
StartLineIdle ==
    /\ sl_data = <<>>
    /\ sl_pc = "idle"
    /\ sl_value = <<>>
    /\ sl_rendered = <<>>
    /\ sl_reparsed = <<>>

\* A direct call message_body_from_reader(reader, headers, timeout).
Init ==
    /\ headers \in {Some(hs) : hs \in HeaderLists}
    /\ timeout \in Timeouts
    /\ stream \in Streams
    /\ pos = 0
    /\ pc = "scan"
    /\ ppc = "direct"
    /\ content_length = Nothing
    /\ transfer_encoding = Nothing
    /\ chunked = FALSE
    /\ includes_trailers = Nothing
    /\ chunk_size_bytes = <<>>
    /\ num_content_bytes = 0
    /\ header_bytearray = <<>>
    /\ out = <<>>
    /\ parts = <<>>
    /\ reads = <<>>
    /\ err = NoError
    /\ FwdIdle
    /\ UriIdle
    /\ StartLineIdle

Next ==
    \/ BodyScan
    \/ ReadChunkSize
    \/ ReadChunk
    \/ ReadTrailer
    \/ ReadFinalCRLF
    \/ ReadFixed
    \/ ReadTimesOut
    \/ ReadHitsEOF

Spec == Init /\ [][Next]_vars


---------------------------------------------------------------------------
(* message_parts_from_reader (message.py lines 195-229).                   *)

G == "G"
H == "H"

StartLineBytes == <<G>> \o CRLF
FieldLineBytes == <<H>> \o CRLF

RECURSIVE FieldLines(_)
FieldLines(k) == IF k = 0 THEN <<>> ELSE FieldLineBytes \o FieldLines(k - 1)

\* A message head on the wire: start-line, k field-lines, the empty line.
HeadOf(k) == StartLineBytes \o FieldLines(k) \o CRLF

\* Heads the peer cuts short.
CutHeads == { <<>>, <<G>>, StartLineBytes \o FieldLineBytes }

PartsStreams ==
    { HeadOf(k) \o b : k \in 0..MaxFieldLines, b \in Streams } \cup CutHeads

\* What the caller sends back after the header bytes: decoded headers
\* (asend) or nothing (anext, which sends None).
SentHeaderLists ==
    { <<>>,
      << <<"Content-Length", "2">> >>,
      << <<"Transfer-Encoding", "Chunked">> >>,
      << <<"Host", "h">>, <<"transfer-encoding", "CHUNKED">>, <<"Trailers", "t">> >>,
      << <<"Content-Length", "2">>, <<"content-length", "0">> >> }

SentHeaders == { Nothing } \cup { Some(hs) : hs \in SentHeaderLists }

\* HeaderBlockDone taking any line for the end of the header block.
HeaderBlockDoneAtOnce(line) == TRUE

\* Line 219: the empty line ends the header block.
HeaderBlockDone(line) == line = CRLF

\* Line 210: read and yield the start-line bytes.
ReadStartLine ==
    /\ ppc = "start_line"
    /\ CanComplete(ReadAt(ppc))
    /\ Consume(ReadAt(ppc))
    /\ parts' = Append(parts, Some(ReadResult(ReadAt(ppc))))
    /\ ppc' = "field_line"
    /\ UNCHANGED <<callArgs, pc, bodyLocals, chunkLocals, header_bytearray,
                   out, err, pureVars>>

\* Lines 217-223: read a field line into header_bytearray; after the empty
\* line yield the header bytes and wait for the parsed headers.
ReadFieldLine ==
    /\ ppc = "field_line"
    /\ CanComplete(ReadAt(ppc))
    /\ Consume(ReadAt(ppc))
    /\ header_bytearray' = header_bytearray \o ReadResult(ReadAt(ppc))
    /\ IF HeaderBlockDone(ReadResult(ReadAt(ppc)))
       THEN /\ parts' = Append(parts, Some(header_bytearray'))
            /\ ppc' = "await_headers"
       ELSE UNCHANGED <<parts, ppc>>
    /\ UNCHANGED <<callArgs, pc, bodyLocals, chunkLocals, out, err, pureVars>>

\* Lines 223-224: the caller resumes the generator, with the headers or
\* with None; the bare yield of line 224 answers with None.
SendHeaders ==
    /\ ppc = "await_headers"
    /\ headers' \in SentHeaders
    /\ parts' = Append(parts, Nothing)
    /\ ppc' = "await_resume"
    /\ UNCHANGED <<timeout, stream, pos, pc, bodyLocals, chunkLocals,
                   header_bytearray, out, reads, err, pureVars>>

\* Line 228: the caller resumes again and the body generator is entered.
ResumeIntoBody ==
    /\ ppc = "await_resume"
    /\ ppc' = "body"
    /\ pc' = "scan"
    /\ UNCHANGED <<callArgs, pos, bodyLocals, chunkLocals, header_bytearray,
                   out, parts, reads, err, pureVars>>

\* A call message_parts_from_reader(reader, timeout).
InitParts ==
    /\ headers = Nothing
    /\ timeout \in Timeouts
    /\ stream \in PartsStreams
    /\ pos = 0
    /\ pc = "idle"
    /\ ppc = "start_line"
    /\ content_length = Nothing
    /\ transfer_encoding = Nothing
    /\ chunked = FALSE
    /\ includes_trailers = Nothing
    /\ chunk_size_bytes = <<>>
    /\ num_content_bytes = 0
    /\ header_bytearray = <<>>
    /\ out = <<>>
    /\ parts = <<>>
    /\ reads = <<>>
    /\ err = NoError
    /\ FwdIdle
    /\ UriIdle
    /\ StartLineIdle

NextParts ==
    \/ ReadStartLine
    \/ ReadFieldLine
    \/ SendHeaders
    \/ ResumeIntoBody
    \/ BodyScan
    \/ ReadChunkSize
    \/ ReadChunk
    \/ ReadTrailer
    \/ ReadFinalCRLF
    \/ ReadFixed
    \/ ReadTimesOut
    \/ ReadHitsEOF

SpecParts == InitParts /\ [][NextParts]_vars

---------------------------------------------------------------------------
(* parse_forwarded_header_value (forwarded.py lines 87-150) on header      *)
(* values the ForwardedValue grammar (lines 38-46) accepts.  A header      *)
(* value is its list of forwarded-elements, an element its list of         *)
(* forwarded-pairs, a pair [name, quoted, text]: the token before "=",     *)
(* whether the value is a quoted-string, and the value's text between the  *)
(* quotes as a list of lexical pieces.                                     *)

DQUOTE == "DQUOTE"

\* Texts of the model, by the rule of _ForwardedNodeRule (lines 17-25) they
\* match.
IPv4Texts == {"192.0.2.60"}
IPv6ClassTexts == {"::1", "zz"}      \* 1*(%x21-5C / %x5E-7E), line 19
ValidIPv6Texts == {"::1"}            \* what ipaddress.IPv6Address accepts
ObfTexts == {"_hidden", "_p"}        \* obfnode and obfport, lines 21 and 24
PortTexts == {"8080"}                \* port = 1*5DIGIT, line 23

\* int(node_port.value), line 127, on a port text.
IntOfPort(t) == CASE t = "8080" -> 8080

\* str.lower() on the parameter names of the model (lines 56 and 114).
LowerParameter(n) ==
    CASE n = "For" -> "for"
      [] n = "BY" -> "by"
      [] OTHER -> n

\* _ForwardedNodeRule('node').parse_all(text), line 64:
\* node = nodename [ ":" node-port ], the whole text matched.
NodeName(text) ==
    IF text = <<>> THEN [ok |-> FALSE, kind |-> "", len |-> 0]
    ELSE IF text[1] \in IPv4Texts
         THEN [ok |-> TRUE, kind |-> "IPv4address", len |-> 1]
    ELSE IF Len(text) >= 3 /\ text[1] = "[" /\ text[2] \in IPv6ClassTexts
            /\ text[3] = "]"
         THEN [ok |-> TRUE, kind |-> "bracketed", len |-> 3]
    ELSE IF text[1] = "unknown"
         THEN [ok |-> TRUE, kind |-> "unknown", len |-> 1]
    ELSE IF text[1] \in ObfTexts
         THEN [ok |-> TRUE, kind |-> "obfnode", len |-> 1]
    ELSE [ok |-> FALSE, kind |-> "", len |-> 0]

NodeParse(text) ==
    LET nn == NodeName(text)
        rest == IF nn.ok THEN SubSeq(text, nn.len + 1, Len(text)) ELSE <<>>
    IN IF ~nn.ok THEN [ok |-> FALSE]
       ELSE IF rest = <<>>
            THEN [ok |-> TRUE, kind |-> nn.kind, text |-> text,
                  node_port |-> Nothing]
       ELSE IF Len(rest) = 2 /\ rest[1] = ":" /\ rest[2] \in PortTexts \cup ObfTexts
            THEN [ok |-> TRUE, kind |-> nn.kind, text |-> text,
                  node_port |-> Some(rest[2])]
       ELSE [ok |-> FALSE]

IsNodeParameter(pair) == LowerParameter(pair.name) \in {"for", "by"}

\* _ForwardedHeaderRule.parse_all (lines 48-68): every for/by value of the
\* header value is parsed as a node, whatever use_node is; a value that is
\* no node raises ParseError.
HeaderRuleAccepts(value) ==
    \A e \in 1..Len(value) : \A j \in 1..Len(value[e]) :
        IsNodeParameter(value[e][j]) => NodeParse(value[e][j].text).ok

\* current_node.children[2].value, line 120: the value as written, quotes
\* included.
RawValue(pair) ==
    <<"str", IF pair.quoted THEN <<DQUOTE>> \o pair.text \o <<DQUOTE>>
             ELSE pair.text>>

\* Lines 125-127: port = int(node_port.value) when there is a node-port;
\* int() of an obfuscated port raises ValueError.
ResolvePort(node) ==
    IF node.node_port = Nothing THEN [err |-> NoError, port |-> <<"none">>]
    ELSE IF ValueOf(node.node_port) \in PortTexts
         THEN [err |-> NoError, port |-> <<"int", IntOfPort(ValueOf(node.node_port))>>]
    ELSE [err |-> "ValueError", port |-> <<"none">>]

\* Lines 129-134: an IPv4 or bracketed IPv6 nodename becomes a pair
\* (address, port); any other nodename leaves value = value_node.value, the
\* text of the whole node.
ResolveIdentity(node, port) ==
    IF node.kind = "IPv4address"
    THEN [err |-> NoError, value |-> <<"pair", <<"IPv4", node.text[1]>>, port>>]
    ELSE IF node.kind = "bracketed"
    THEN IF node.text[2] \in ValidIPv6Texts
         THEN [err |-> NoError, value |-> <<"pair", <<"IPv6", node.text[2]>>, port>>]
         ELSE [err |-> "AddressValueError", value |-> <<>>]
    ELSE [err |-> NoError, value |-> <<"str", node.text>>]

\* Lines 120-136: the value appended for one forwarded-pair.
PairValue(pair, node_mode) ==
    IF IsNodeParameter(pair) /\ node_mode
    THEN LET node == NodeParse(pair.text)
             p == ResolvePort(node)
         IN IF p.err # NoError THEN [err |-> p.err, value |-> <<>>]
            ELSE ResolveIdentity(node, p.port)
    ELSE [err |-> NoError, value |-> RawValue(pair)]

\* IsDuplicate comparing the names as written.
IsDuplicateCaseSensitive(name, parameters) ==
    \E i \in 1..Len(parameters) : parameters[i] = name

\* Line 115: lowercase_parameter in parameters.
IsDuplicate(name, parameters) ==
    \E i \in 1..Len(parameters) : parameters[i] = LowerParameter(name)

\* Lines 111-139: the walk over the forwarded-pairs of one element.
RECURSIVE WalkPairs(_, _, _, _)
WalkPairs(pairs, parameters, values, node_mode) ==
    IF pairs = <<>>
    THEN [err |-> NoError, parameters |-> parameters, values |-> values]
    ELSE IF IsDuplicate(Head(pairs).name, parameters)
    THEN [err |-> "DuplicateParameter", parameters |-> parameters, values |-> values]
    ELSE LET v == PairValue(Head(pairs), node_mode)
         IN IF v.err # NoError
            THEN [err |-> v.err, parameters |-> parameters, values |-> values]
            ELSE WalkPairs(Tail(pairs),
                           Append(parameters, LowerParameter(Head(pairs).name)),
                           Append(values, v.value), node_mode)

\* The fields of ForwardedElement and NodeForwardedElement (lines 71-84).
ElementFields == {"by", "for", "host", "proto"}

\* Lines 141-148: constructor(**{f'{parameter}_value': value ...}); a name
\* that is no field raises TypeError, a field not given stays None.
Construct(parameters, values) ==
    IF \E i \in 1..Len(parameters) : parameters[i] \notin ElementFields
    THEN [err |-> "TypeError", record |-> <<>>]
    ELSE [err |-> NoError,
          record |-> [f \in ElementFields |->
                        IF \E i \in 1..Len(parameters) : parameters[i] = f
                        THEN Some(values[CHOOSE i \in 1..Len(parameters) :
                                             parameters[i] = f])
                        ELSE Nothing]]

\* Lines 106-148: the loop over the forwarded-elements.
RECURSIVE WalkElements(_, _, _)
WalkElements(elements, records, node_mode) ==
    IF elements = <<>> THEN [err |-> NoError, records |-> records]
    ELSE LET w == WalkPairs(Head(elements), <<>>, <<>>, node_mode)
             c == Construct(w.parameters, w.values)
         IN IF w.err # NoError THEN [err |-> w.err, records |-> <<>>]
            ELSE IF c.err # NoError THEN [err |-> c.err, records |-> <<>>]
            ELSE WalkElements(Tail(elements), Append(records, c.record), node_mode)

\* parse_forwarded_header_value(forwarded_value, use_node).
ParseForwarded(value, node_mode) ==
    IF ~HeaderRuleAccepts(value) THEN [err |-> "ParseError", records |-> <<>>]
    ELSE WalkElements(value, <<>>, node_mode)

\* The forwarded-pairs of the model.
Pair(n, q, t) == [name |-> n, quoted |-> q, text |-> t]

ForwardedPairs ==
    { Pair("for", FALSE, <<"192.0.2.60">>),
      Pair("For", TRUE, <<"[", "::1", "]", ":", "8080">>),
      Pair("for", TRUE, <<"[", "zz", "]">>),
      Pair("for", FALSE, <<"unknown">>),
      Pair("for", FALSE, <<"example.com">>),
      Pair("by", FALSE, <<"_hidden">>),
      Pair("by", TRUE, <<"192.0.2.60", ":", "_p">>),
      Pair("BY", TRUE, <<"unknown", ":", "8080">>),
      Pair("host", FALSE, <<"example.com">>),
      Pair("proto", FALSE, <<"http">>),
      Pair("foo", FALSE, <<"bar">>) }

\* A header value written as pairs, each after ";" (same element) or ","
\* (next element).
Separators == {";", ","}
WrittenPairs == ForwardedPairs \X Separators

RECURSIVE ElementsOf(_)
ElementsOf(written) ==
    IF written = <<>> THEN << <<>> >>
    ELSE LET before == ElementsOf(SubSeq(written, 1, Len(written) - 1))
             last == written[Len(written)]
         IN IF last[2] = "," /\ Len(written) > 1
            THEN Append(before, <<last[1]>>)
            ELSE [before EXCEPT ![Len(before)] = Append(@, last[1])]

ForwardedValues == { ElementsOf(w) : w \in SeqsUpTo(WrittenPairs, MaxPairs) }

\* The call and its outcome.
ParseForwardedCall ==
    /\ fwd_pc = "call"
    /\ LET r == ParseForwarded(fwd_value, use_node)
       IN /\ fwd_pc' = IF r.err = NoError THEN "returned" ELSE "raised"
          /\ fwd_result' = IF r.err = NoError THEN r.records ELSE <<r.err>>
    /\ UNCHANGED <<fwd_value, use_node, frameVars, uriVars, slVars>>

InitFwd ==
    /\ fwd_value \in ForwardedValues
    /\ use_node \in BOOLEAN
    /\ fwd_pc = "call"
    /\ fwd_result = <<>>
    /\ headers = Nothing
    /\ timeout = Nothing
    /\ stream = <<>>
    /\ pos = 0
    /\ pc = "idle"
    /\ ppc = "idle"
    /\ content_length = Nothing
    /\ transfer_encoding = Nothing
    /\ chunked = FALSE
    /\ includes_trailers = Nothing
    /\ chunk_size_bytes = <<>>
    /\ num_content_bytes = 0
    /\ header_bytearray = <<>>
    /\ out = <<>>
    /\ parts = <<>>
    /\ reads = <<>>
    /\ err = NoError
    /\ UriIdle
    /\ StartLineIdle

NextFwd == ParseForwardedCall

SpecFwd == InitFwd /\ [][NextFwd]_vars

---------------------------------------------------------------------------
(* What the header list says, read off the list itself.                    *)

HeaderList == ValueOf(headers)

NamedIndices(hs, name) == {i \in 1..Len(hs) : Lower(hs[i][1]) = name}

ContentLengthCount(hs) == Cardinality(NamedIndices(hs, "content-length"))
TransferEncodingCount(hs) == Cardinality(NamedIndices(hs, "transfer-encoding"))

SelectsChunked(hs) ==
    \E i \in NamedIndices(hs, "transfer-encoding") : Lower(hs[i][2]) = "chunked"

DeclaresTrailers(hs) == NamedIndices(hs, "trailers") # {}

\* The scan of the headers is over and raised nothing: a failure of the
\* scan is a failure before any read.
Scanned == pc # "scan"
FramingChosen == Scanned /\ ~(pc = "failed" /\ reads = <<>>)

Consumed == SubSeq(stream, 1, pos)

---------------------------------------------------------------------------
(* C1: with two or more Content-Length headers (names compared             *)
(* case-insensitively) body extraction fails with ValueError, whatever     *)
(* the stream and the other headers are, before any read is issued and     *)
(* before any unit is emitted.                                             *)
C1_DuplicateContentLengthFails ==
    (Scanned /\ ContentLengthCount(HeaderList) >= 2) =>
        /\ pc = "failed"
        /\ err = "ValueError"
        /\ reads = <<>>
        /\ out = <<>>
        /\ pos = 0

\* Two well-formed Content-Length headers, spelled in different cases, in
\* front of a stream that holds a body: the call has failed.
C1_Witness ==
    /\ pc = "failed"
    /\ HeaderList = << <<"Content-Length", "2">>, <<"content-length", "0">> >>
    /\ Len(stream) >= 2

(* C2: with two or more Transfer-Encoding headers, whatever their values,  *)
(* body extraction fails with ValueError and never selects a framing or    *)
(* emits a unit.                                                           *)
C2_DuplicateTransferEncodingFails ==
    (Scanned /\ TransferEncodingCount(HeaderList) >= 2) =>
        /\ pc = "failed"
        /\ err = "ValueError"
        /\ reads = <<>>
        /\ out = <<>>

(* C3: in chunked mode, with or without declared trailers, the units       *)
(* emitted are the bytes consumed: after a normal finish their             *)
(* concatenation is the whole consumed body, the zero-size chunk line and  *)
(* the trailer lines through the bare CRLF included.                       *)
C3_ChunkedEmitsEveryConsumedByte ==
    (pc = "done" /\ chunked) => Flatten(out) = Consumed

(* C4: chunked framing, no trailers declared, a stream of n nonzero chunks *)
(* then the zero-size chunk and one CRLF: exactly n+1 units are emitted in *)
(* stream order, the k-th the k-th chunk-size line with its size+2 bytes,  *)
(* the last the zero-size chunk line with the final CRLF.                  *)
ExpectedUnits(ps) ==
    [k \in 1..Len(ps) |-> WireChunk(ps[k])] \o << ZeroChunkLine \o CRLF >>

IsPrefix(a, b) == Len(a) <= Len(b) /\ a = SubSeq(b, 1, Len(a))

\* C4: the units of a well-formed chunked stream without trailers.
C4_ChunkedUnits ==
    (FramingChosen /\ SelectsChunked(HeaderList) /\ ~DeclaresTrailers(HeaderList)) =>
        \A ps \in ChunkLists, t \in Tails :
            stream = WireChunks(ps) \o ZeroChunkLine \o CRLF \o t =>
                /\ IsPrefix(out, ExpectedUnits(ps))
                /\ pc = "done" => out = ExpectedUnits(ps)
                /\ pc = "failed" => err = "TimeoutError"

\* Two nonzero chunks, the zero-size chunk and its CRLF have been read to
\* the end and three units are out.
C4_Witness ==
    /\ pc = "done"
    /\ SelectsChunked(HeaderList)
    /\ ~DeclaresTrailers(HeaderList)
    /\ stream = WireChunks(<< <<W>>, CRLF >>) \o ZeroChunkLine \o CRLF \o <<W>>
    /\ Len(out) = 3

(* C5: exactly one Content-Length, of value N >= 0, and no chunked         *)
(* framing: one read of exactly N bytes is issued and one unit is emitted, *)
(* the next N bytes of the stream; no second unit, no byte beyond the      *)
(* N-th.                                                                   *)
C5_FixedLengthBody ==
    \A i \in 1..Len(HeaderList) :
        ( /\ Scanned
          /\ NamedIndices(HeaderList, "content-length") = {i}
          /\ HeaderList[i][2] \in DecimalStrings
          /\ ~SelectsChunked(HeaderList) ) =>
            LET N == IntOfDecimal(HeaderList[i][2])
            IN /\ Len(reads) <= 1
               /\ \A k \in 1..Len(reads) :
                      reads[k].op = "readexactly" /\ reads[k].n = N
               /\ pos <= N \/ pc = "failed"
               /\ pc = "done" =>
                      /\ Len(reads) = 1
                      /\ reads[1].result = "ok"
                      /\ out = << SubSeq(stream, 1, N) >>
                      /\ pos = N
               /\ pc # "done" => out = <<>>

\* A two-byte body has been read off a longer stream.
C5_Witness ==
    /\ pc = "done"
    /\ HeaderList = << <<"Content-Length", "2">> >>
    /\ Len(stream) > 2
    /\ Len(out) = 1 /\ Len(out[1]) = 2

(* C6: the body strategy is a function of the headers alone: chunked       *)
(* framing when a Transfer-Encoding header has value 'chunked' in any      *)
(* letter case, even beside a Content-Length, whose value then sizes no    *)
(* read; else fixed-length framing when Content-Length is present; else no *)
(* unit, no read, the stream position unchanged.                           *)
ChunkedFramingUsed ==
    /\ pc # "fixed"
    /\ reads # <<>> => reads[1].op = "readuntil"
    /\ \A k \in 1..Len(reads) :
           reads[k].op = "readexactly" =>
               /\ k > 1
               /\ reads[k - 1].op = "readuntil"
               /\ reads[k].n = ChunkSizeOf(reads[k - 1].data) + 2

FixedFramingUsed ==
    /\ pc \in {"fixed", "done", "failed"}
    /\ Len(reads) <= 1
    /\ \A k \in 1..Len(reads) :
           reads[k].op = "readexactly" /\ reads[k].n = ValueOf(content_length)

NoBody ==
    /\ pc = "done"
    /\ reads = <<>>
    /\ out = <<>>
    /\ pos = 0

\* C6: the framing used follows from the header list alone.
C6_StrategyFromHeaders ==
    FramingChosen =>
        IF SelectsChunked(HeaderList) THEN ChunkedFramingUsed
        ELSE IF ContentLengthCount(HeaderList) > 0 THEN FixedFramingUsed
        ELSE NoBody

\* 'Chunked' beside a Content-Length: a chunk has been read and emitted.
C6_Witness ==
    /\ SelectsChunked(HeaderList)
    /\ ContentLengthCount(HeaderList) = 1
    /\ pc = "done"
    /\ Len(out) = 2


---------------------------------------------------------------------------
(* C7: message_parts_from_reader runs its phases in order: the first value *)
(* produced is the start-line bytes through the first CRLF, the second the *)
(* header bytes through and including the empty line, and no body read is  *)
(* issued and no body unit produced before the caller has resumed the      *)
(* generator with the decoded headers; resumed without headers, it         *)
(* consumes no body byte.                                                  *)
HeadLength == Len(ValueOf(parts[1])) + Len(ValueOf(parts[2]))

\* The caller has resumed the generator after the header bytes.
HeadersAnswered == Len(parts) >= 3

\* C7: start line, then header bytes, then, only after the caller
\* answered, the body.
C7_PhasesInOrder ==
    /\ \A k \in 0..MaxFieldLines :
           IsPrefix(HeadOf(k), stream) =>
               /\ Len(parts) >= 1 => parts[1] = Some(StartLineBytes)
               /\ Len(parts) >= 2 => parts[2] = Some(FieldLines(k) \o CRLF)
               /\ ~HeadersAnswered =>
                      /\ pos <= Len(HeadOf(k))
                      /\ Len(reads) <= k + 2
    /\ ~HeadersAnswered =>
           /\ pc = "idle"
           /\ out = <<>>
           /\ \A i \in 1..Len(reads) : reads[i].op = "readuntil"
    /\ HeadersAnswered =>
           /\ parts[3] = Nothing
           /\ Len(parts) = 3 + Len(out)
           /\ \A i \in 1..Len(out) : parts[3 + i] = Some(out[i])
    /\ (HeadersAnswered /\ headers = Nothing) =>
           /\ pos = HeadLength
           /\ out = <<>>
           /\ pc \in {"idle", "scan", "failed"}
           /\ pc = "failed" => err = "TypeError"

\* A head of two field lines has been produced in two values, the headers
\* were sent back, and a body unit followed.
C7_Witness ==
    /\ IsPrefix(HeadOf(2), stream)
    /\ headers # Nothing
    /\ Len(parts) >= 4
    /\ pos > HeadLength

(* C8: every read of the streamed mode is bounded by the supplied          *)
(* timeout; when one exceeds it the operation fails with a Timeout error   *)
(* (not the ValueError of the framing errors), the stream position is      *)
(* where the last completed read left it, and no further unit is emitted.  *)
RECURSIVE BytesReturned(_)
BytesReturned(log) ==
    IF log = <<>> THEN 0 ELSE Len(Head(log).data) + BytesReturned(Tail(log))

C8_TimedOutState ==
    err = "TimeoutError" =>
        /\ "failed" \in {pc, ppc}
        /\ ~InRead
        /\ reads[Len(reads)].result = "timeout"
        /\ \A i \in 1..(Len(reads) - 1) : reads[i].result = "ok"
        /\ pos = BytesReturned(reads)

C8_ReadsBounded ==
    (InRead /\ timeout # Nothing) => ENABLED ReadTimesOut

C8_TimeoutStep ==
    (err' = "TimeoutError") =>
        /\ err = NoError
        /\ pos' = pos
        /\ out' = out
        /\ parts' = parts

---------------------------------------------------------------------------
(* What a Forwarded header value holds, read off the value itself.         *)

PairPositions(value) ==
    {<<e, j>> \in (1..Len(value)) \X (1..MaxPairs) : j <= Len(value[e])}

\* Position a comes before position b in the header value.
Precedes(a, b) == a[1] < b[1] \/ (a[1] = b[1] /\ a[2] < b[2])

\* The pair at position p repeats, in its own element, the lower-cased
\* name of an earlier pair.
RepeatsName(value, p) ==
    \E i \in 1..(p[2] - 1) :
        LowerParameter(value[p[1]][i].name) = LowerParameter(value[p[1]][p[2]].name)

Repeats(value) == {p \in PairPositions(value) : RepeatsName(value, p)}

HasDuplicate(value) == Repeats(value) # {}

FirstRepeat(value) ==
    CHOOSE p \in Repeats(value) : \A q \in Repeats(value) : p = q \/ Precedes(p, q)

HasObfuscatedPort(pair) ==
    /\ Len(pair.text) >= 3
    /\ pair.text[Len(pair.text) - 1] = ":"
    /\ pair.text[Len(pair.text)] \in ObfTexts

HasMalformedIPv6(pair) ==
    /\ Len(pair.text) >= 3
    /\ pair.text[1] = "["
    /\ pair.text[2] \notin ValidIPv6Texts

\* Something raises before the pair at position p is looked at: the node
\* sub-grammar on any for/by value of the header, an unknown parameter name
\* in an earlier element, or (use_node) the resolution of an earlier for/by
\* value.
FailsBefore(value, node_mode, p) ==
    \/ ~HeaderRuleAccepts(value)
    \/ \E q \in PairPositions(value) :
           /\ q[1] < p[1]
           /\ LowerParameter(value[q[1]][q[2]].name) \notin ElementFields
    \/ /\ node_mode
       /\ \E q \in PairPositions(value) :
              /\ Precedes(q, p)
              /\ IsNodeParameter(value[q[1]][q[2]])
              /\ \/ HasObfuscatedPort(value[q[1]][q[2]])
                 \/ HasMalformedIPv6(value[q[1]][q[2]])

Called == fwd_pc # "call"
Raised(e) == fwd_pc = "raised" /\ fwd_result = <<e>>

---------------------------------------------------------------------------
ExpectedIdentity(pair) ==
    CASE NodeParse(pair.text).kind = "IPv4address" -> "IPv4"
      [] NodeParse(pair.text).kind = "bracketed" -> "IPv6"
      [] NodeParse(pair.text).kind = "unknown" -> "unknown"
      [] NodeParse(pair.text).kind = "obfnode" -> "obfnode"

ExpectedPort(pair) ==
    IF NodeParse(pair.text).node_port = Nothing THEN "none"
    ELSE IF ValueOf(NodeParse(pair.text).node_port) \in PortTexts THEN "int"
    ELSE "obfport"

\* Every for/by value matches the node sub-grammar with a well-formed
\* address, no name repeats in an element, every name is a field.
Accepted(value) ==
    /\ HeaderRuleAccepts(value)
    /\ ~HasDuplicate(value)
    /\ \A p \in PairPositions(value) :
           /\ LowerParameter(value[p[1]][p[2]].name) \in ElementFields
           /\ ~HasMalformedIPv6(value[p[1]][p[2]])

IsResolved(v, pair) ==
    /\ v[1] = "pair"
    /\ v[2][1] = ExpectedIdentity(pair)
    /\ v[3][1] = ExpectedPort(pair)

\* C10: every accepted for/by value comes back as a resolved pair.
C10_NodeValuesResolved ==
    (Called /\ use_node /\ Accepted(fwd_value)) =>
        /\ fwd_pc = "returned"
        /\ \A p \in PairPositions(fwd_value) :
               LET pair == fwd_value[p[1]][p[2]]
               IN IsNodeParameter(pair) =>
                      IsResolved(ValueOf(fwd_result[p[1]][LowerParameter(pair.name)]),
                                 pair)


---------------------------------------------------------------------------
(* parse_uri (uri.py lines 30-74).  A URI string is the pieces             *)
(* urllib.parse.urlparse cuts it into: the scheme as written ("" when the  *)
(* string has none) and the authority, absent or made of an optional       *)
(* userinfo, a host text and an optional port text after the last ":".     *)
(* A port text is a nonempty list of decimal digits.  Path, query and      *)
(* fragment are copied through by lines 65-67 and are left out.            *)

\* The schemes of the model, as written in the URI string.
Schemes == {"http", "HTTP", "https", "ftp", ""}

\* urlparse lower-cases the scheme (parsed_url.scheme, lines 56 and 63).
LowerScheme(s) == CASE s = "HTTP" -> "http" [] OTHER -> s

\* The host texts of the model: a reg-name, an IPv4address, an IP-literal
\* that is an IPv6 address and one that only matches the byte class of
\* host.py line 25.
RegNameTexts == {"EXAMPLE.com"}
BracketedTexts == {"[::1]", "[zz]"}
ValidBracketedTexts == {"[::1]"}
HostTexts == RegNameTexts \cup IPv4Texts \cup BracketedTexts

\* The digits port texts are written with.
PortDigits == {"0", "3", "5", "6"}

\* int() on a list of decimal digits: leading zeros carry no value.
RECURSIVE DecimalValue(_, _)
DecimalValue(digits, acc) ==
    IF digits = <<>> THEN acc
    ELSE DecimalValue(Tail(digits), 10 * acc + HexDigits[Head(digits)])

PortDigitTexts == SeqsUpTo(PortDigits, MaxPortDigits) \ {<<>>}

Authorities ==
    [userinfo : BOOLEAN, host : HostTexts,
     port : {Nothing} \cup {Some(t) : t \in PortDigitTexts}]

UriStrings ==
    [scheme : Schemes, authority : {Nothing} \cup {Some(a) : a \in Authorities}]

\* The largest port ParseResult.port returns; above it the property raises
\* ValueError.
MaxPort == 65535

\* parsed_url.port (lines 53 and 55): None without a port text, the value of
\* the text otherwise, ValueError when the value is out of range.
UrlparsePort(uri) ==
    IF uri.authority = Nothing \/ ValueOf(uri.authority).port = Nothing
    THEN [err |-> NoError, port |-> Nothing]
    ELSE LET n == DecimalValue(ValueOf(ValueOf(uri.authority).port), 0)
         IN IF n > MaxPort THEN [err |-> "ValueError", port |-> Nothing]
            ELSE [err |-> NoError, port |-> Some(n)]

\* parse_host(host_value=parsed_url.netloc), host.py lines 37-52, as line 40
\* calls it: the userinfo and "@" of a netloc match no alternative of
\* uri-host, and IPv6Address rejects what is no IPv6 address.
ParseHost(authority) ==
    IF authority.userinfo THEN [err |-> "ParseError", host |-> Nothing]
    ELSE IF authority.host \in BracketedTexts \ ValidBracketedTexts
    THEN [err |-> "AddressValueError", host |-> Nothing]
    ELSE [err |-> NoError, host |-> Some(authority.host)]

\* Lines 53-60: `if not parsed_url.port` is taken for None and for 0.
UriDefaultPort(port, scheme) ==
    IF port = Nothing \/ port = Some(0)
    THEN CASE scheme = "http" -> Some(80)
           [] scheme = "https" -> Some(443)
           [] OTHER -> port
    ELSE port

\* parse_uri(uri_string) without a public suffix trie.
ParseUri(uri) ==
    LET scheme == LowerScheme(uri.scheme)
        hosted == IF uri.authority = Nothing
                  THEN [err |-> NoError, host |-> Nothing]
                  ELSE ParseHost(ValueOf(uri.authority))
        ported == UrlparsePort(uri)
    IN IF hosted.err # NoError THEN [err |-> hosted.err]
       ELSE IF ported.err # NoError THEN [err |-> ported.err]
       ELSE [err |-> NoError, scheme |-> scheme, host |-> hosted.host,
             port |-> UriDefaultPort(ported.port, scheme)]

\* The call and its outcome.
ParseUriCall ==
    /\ uri_pc = "call"
    /\ LET r == ParseUri(uri_string)
       IN /\ uri_pc' = IF r.err = NoError THEN "returned" ELSE "raised"
          /\ uri_result' = IF r.err = NoError THEN r ELSE <<r.err>>
    /\ UNCHANGED <<uri_string, frameVars, fwdVars, slVars>>

\* No streamed message is being read.
FrameIdle ==
    /\ headers = Nothing
    /\ timeout = Nothing
    /\ stream = <<>>
    /\ pos = 0
    /\ pc = "idle"
    /\ ppc = "idle"
    /\ content_length = Nothing
    /\ transfer_encoding = Nothing
    /\ chunked = FALSE
    /\ includes_trailers = Nothing
    /\ chunk_size_bytes = <<>>
    /\ num_content_bytes = 0
    /\ header_bytearray = <<>>
    /\ out = <<>>
    /\ parts = <<>>
    /\ reads = <<>>
    /\ err = NoError

InitUri ==
    /\ uri_string \in UriStrings
    /\ uri_pc = "call"
    /\ uri_result = <<>>
    /\ FrameIdle
    /\ FwdIdle
    /\ StartLineIdle

NextUri == ParseUriCall

SpecUri == InitUri /\ [][NextUri]_vars

---------------------------------------------------------------------------
(* C11: for every URI parse_uri accepts, the resulting port is the         *)
(* explicit port whenever the authority carries one (every value in        *)
(* 0..65535, 0 included); only without an explicit port is it defaulted,   *)
(* to 80 for scheme http and 443 for scheme https, and for every other     *)
(* scheme it stays unset.                                                  *)

UriAccepted == uri_pc = "returned"

HasExplicitPort ==
    /\ uri_string.authority # Nothing
    /\ ValueOf(uri_string.authority).port # Nothing

ExplicitPort == DecimalValue(ValueOf(ValueOf(uri_string.authority).port), 0)

SchemeDefault ==
    CASE uri_result.scheme = "http" -> Some(80)
      [] uri_result.scheme = "https" -> Some(443)
      [] OTHER -> Nothing

C11_ExplicitPortKept ==
    UriAccepted =>
        IF HasExplicitPort
        THEN /\ ExplicitPort \in 0..MaxPort
             /\ uri_result.port = Some(ExplicitPort)
        ELSE uri_result.port = SchemeDefault

---------------------------------------------------------------------------
(* StartLine.from_bytes (message.py lines 50-78) and bytes(start_line)     *)
(* (lines 246-262).  Start-line bytes are a list of tokens: a word, one    *)
(* decimal digit, or the space SP.  The rule RFC9112_RULESET['start-line'] *)
(* that line 74 evaluates is modelled by the grammar of RFC 9112:          *)
(*   start-line   = request-line / status-line                             *)
(*   request-line = method SP request-target SP HTTP-version               *)
(*   status-line  = HTTP-version SP status-code SP [ reason-phrase ]       *)
(*   status-code  = 3DIGIT                                                 *)

SP == "SP"

MethodTexts == {"GET", "POST"}
TargetTexts == {"/", "*"}
VersionTexts == {"HTTP/1.1", "HTTP/1.0"}
ReasonWords == {"OK", "Not", "Found"}

\* The digits status codes are written with.
StatusDigits == {"0", "2", "4"}

\* status-code = 3DIGIT.
StatusCodeLength == 3

\* reason-phrase = 1*( HTAB / SP / VCHAR / obs-text ).
ReasonTokens == ReasonWords \cup {SP} \cup DOMAIN HexDigits

IsRequestLine(data) ==
    /\ Len(data) = 5
    /\ data[1] \in MethodTexts
    /\ data[2] = SP
    /\ data[3] \in TargetTexts
    /\ data[4] = SP
    /\ data[5] \in VersionTexts

IsStatusLine(data) ==
    /\ Len(data) >= StatusCodeLength + 3
    /\ data[1] \in VersionTexts
    /\ data[2] = SP
    /\ \A i \in 3..(StatusCodeLength + 2) : data[i] \in DOMAIN HexDigits
    /\ data[StatusCodeLength + 3] = SP
    /\ \A i \in (StatusCodeLength + 4)..Len(data) : data[i] \in ReasonTokens

\* RequestLine(method=..., request_target=..., http_version=...), lines 54-58.
RequestLine(method, request_target, http_version) ==
    [kind |-> "RequestLine", http_version |-> Some(http_version),
     method |-> Some(method), request_target |-> Some(request_target),
     status_code |-> Nothing, reason_phrase |-> Nothing]

\* StatusLine(http_version=..., status_code=..., reason_phrase=...), lines
\* 60-68; reason_phrase is Nothing for None.
StatusLine(http_version, status_code, reason_phrase) ==
    [kind |-> "StatusLine", http_version |-> Some(http_version),
     method |-> Nothing, request_target |-> Nothing,
     status_code |-> Some(status_code), reason_phrase |-> reason_phrase]

\* Lines 63-67: the text of the reason-phrase node, None when the optional
\* reason-phrase matched nothing.
ReasonPhraseOf(data) ==
    LET text == SubSeq(data, StatusCodeLength + 4, Len(data))
    IN IF text = <<>> THEN Nothing ELSE Some(text)

\* StartLine.from_bytes(data), lines 72-78, with cls = StartLine.
FromBytes(data) ==
    IF IsRequestLine(data)
    THEN [err |-> NoError,
          value |-> RequestLine(data[1], data[3], data[5])]
    ELSE IF IsStatusLine(data)
    THEN [err |-> NoError,
          value |-> StatusLine(
              data[1],
              DecimalValue(SubSeq(data, 3, StatusCodeLength + 2), 0),
              ReasonPhraseOf(data))]
    ELSE [err |-> "ParseError", value |-> <<>>]

\* str(status_code), line 262: the decimal digits of a natural number, with
\* no leading zeros.
DigitText(d) ==
    CASE d = 0 -> "0" [] d = 1 -> "1" [] d = 2 -> "2" [] d = 3 -> "3"
      [] d = 4 -> "4" [] d = 5 -> "5" [] d = 6 -> "6" [] d = 7 -> "7"
      [] d = 8 -> "8" [] d = 9 -> "9"

RECURSIVE DecimalDigits(_)
DecimalDigits(n) ==
    IF n < 10 THEN <<DigitText(n)>>
    ELSE Append(DecimalDigits(n \div 10), DigitText(n % 10))

\* b' '.join(parts), line 262.
RECURSIVE JoinSP(_)
JoinSP(pieces) ==
    IF pieces = <<>> THEN <<>>
    ELSE IF Len(pieces) = 1 THEN pieces[1]
    ELSE pieces[1] \o <<SP>> \o JoinSP(Tail(pieces))

\* bytes(start_line): RequestLine and StartLine define no __bytes__, so
\* bytes() raises TypeError; StatusLine.__bytes__ (lines 261-262) calls
\* .encode() on reason_phrase, which None does not have.
Bytes(start_line) ==
    IF start_line.kind = "RequestLine"
    THEN [err |-> "TypeError", data |-> <<>>]
    ELSE IF start_line.reason_phrase = Nothing
    THEN [err |-> "AttributeError", data |-> <<>>]
    ELSE [err |-> NoError,
          data |-> JoinSP(<< <<ValueOf(start_line.http_version)>>,
                             DecimalDigits(ValueOf(start_line.status_code)),
                             ValueOf(start_line.reason_phrase) >>)]

\* The byte strings handed to StartLine.from_bytes: request lines, status
\* lines with and without a reason phrase, and two strings that are no
\* start line.
ReasonTexts == { <<>>, <<"OK">>, <<"Not", SP, "Found">> }

StatusCodeTexts == { t \in SeqsUpTo(StatusDigits, StatusCodeLength) :
                       Len(t) = StatusCodeLength }

StartLineData ==
    { <<m, SP, t, SP, v>> : m \in MethodTexts, t \in TargetTexts,
                            v \in VersionTexts }
    \cup { <<v, SP>> \o c \o <<SP>> \o r :
             v \in VersionTexts, c \in StatusCodeTexts, r \in ReasonTexts }
    \cup { <<>>, <<"GET", SP, "/">> }

\* start_line = StartLine.from_bytes(data)
ParseStartLine ==
    /\ sl_pc = "call"
    /\ LET r == FromBytes(sl_data)
       IN /\ sl_pc' = IF r.err = NoError THEN "parsed" ELSE "raised"
          /\ sl_value' = IF r.err = NoError THEN r.value ELSE <<r.err>>
    /\ UNCHANGED <<sl_data, sl_rendered, sl_reparsed, frameVars, fwdVars,
                   uriVars>>

\* rendered = bytes(start_line)
RenderStartLine ==
    /\ sl_pc = "parsed"
    /\ LET r == Bytes(sl_value)
       IN /\ sl_pc' = IF r.err = NoError THEN "rendered" ELSE "render_raised"
          /\ sl_rendered' = IF r.err = NoError THEN r.data ELSE <<r.err>>
    /\ UNCHANGED <<sl_data, sl_value, sl_reparsed, frameVars, fwdVars,
                   uriVars>>

\* StartLine.from_bytes(rendered)
ReparseStartLine ==
    /\ sl_pc = "rendered"
    /\ LET r == FromBytes(sl_rendered)
       IN /\ sl_pc' = IF r.err = NoError THEN "reparsed" ELSE "reparse_raised"
          /\ sl_reparsed' = IF r.err = NoError THEN r.value ELSE <<r.err>>
    /\ UNCHANGED <<sl_data, sl_value, sl_rendered, frameVars, fwdVars,
                   uriVars>>

InitStartLine ==
    /\ sl_data \in StartLineData
    /\ sl_pc = "call"
    /\ sl_value = <<>>
    /\ sl_rendered = <<>>
    /\ sl_reparsed = <<>>
    /\ FrameIdle
    /\ FwdIdle
    /\ UriIdle

NextStartLine ==
    \/ ParseStartLine
    \/ RenderStartLine
    \/ ReparseStartLine

SpecStartLine == InitStartLine /\ [][NextStartLine]_vars

---------------------------------------------------------------------------
(* C12: for every start line StartLine.from_bytes can produce, of either   *)
(* variant (RequestLine, or StatusLine with or without a reason phrase),   *)
(* bytes() of it succeeds and StartLine.from_bytes of the rendering        *)
(* returns a value equal to it.                                            *)

C12_StartLineRoundTrip ==
    /\ sl_pc # "render_raised"
    /\ sl_pc # "reparse_raised"
    /\ sl_pc = "reparsed" => sl_reparsed = sl_value

---------------------------------------------------------------------------
(* C13: streamed body extraction reads nothing ahead.  On a stream that    *)
(* holds one well-formed body followed by further bytes the stream         *)
(* position never passes the end of the body, and when                     *)
(* message_body_from_reader finishes normally it is exactly there: after   *)
(* the N-th byte for Content-Length N, after the CRLF that follows the     *)
(* zero-size chunk when no trailers are declared, after the bare CRLF that *)
(* ends the trailer section when they are.  After the zero-size chunk no   *)
(* further chunk-size line is read: the reads are two per nonzero chunk,   *)
(* one for the zero-size chunk line and one per line after it, and only a  *)
(* timeout keeps the extraction from finishing.                            *)

\* What ends a well-formed chunked body after its nonzero chunks.
ProperEndings(declared) ==
    IF declared
    THEN { ZeroChunkLine \o CRLF, ZeroChunkLine \o TrailerLine \o CRLF }
    ELSE { ZeroChunkLine \o CRLF }

\* The lines of an ending, the zero-size chunk line included.
LinesOf(e) == Cardinality(SeparatorEnds(e, 0))

NoReadAheadAt(bodyEnd, numReads) ==
    /\ pos <= bodyEnd
    /\ Len(reads) <= numReads
    /\ pc = "done" =>
          /\ pos = bodyEnd
          /\ Len(reads) = numReads
          /\ \A k \in 1..numReads : reads[k].result = "ok"
    /\ pc = "failed" => err = "TimeoutError"

\* The last n bytes of s.
Suffix(s, n) == SubSeq(s, Len(s) - n + 1, Len(s))

C13_NoReadAhead ==
    FramingChosen =>
        IF SelectsChunked(HeaderList)
        THEN \A e \in ProperEndings(DeclaresTrailers(HeaderList)), t \in Tails :
                ( /\ Len(e) + Len(t) <= Len(stream)
                  /\ Suffix(stream, Len(e) + Len(t)) = e \o t ) =>
                    \A ps \in ChunkLists :
                        stream = WireChunks(ps) \o e \o t =>
                            NoReadAheadAt(Len(stream) - Len(t),
                                          2 * Len(ps) + LinesOf(e))
        ELSE \A i \in NamedIndices(HeaderList, "content-length") :
                LET N == IntOfDecimal(HeaderList[i][2])
                IN Len(stream) >= N => NoReadAheadAt(N, 1)

\* A chunked body with a trailer section has been read to its end, and the
\* line that follows it on the stream has not been touched.
C13_Witness ==
    /\ pc = "done"
    /\ SelectsChunked(HeaderList)
    /\ DeclaresTrailers(HeaderList)
    /\ stream = WireChunk(<<W>>) \o ZeroChunkLine \o TrailerLine \o CRLF
                    \o <<W>> \o CRLF
    /\ pos = Len(stream) - 3
    /\ Len(reads) = 5

=============================================================================
